---- MODULE Spec2Model ----
(***************************************************************************)
(* The IngressGroup controller of liabio/ingressgroup.                     *)
(*                                                                         *)
(* main.go: main/Run start the process, register the IngressGroup CRD,     *)
(* build a shared informer for IngressGroups with one event handler and    *)
(* then block on the stop channel.  The cluster API (CRD store, instances, *)
(* watch history) and the informer machinery (list-watch client, local     *)
(* cache store, event dispatcher) are not part of main.go; they are        *)
(* modelled after sections 4.2-4.5 and 6 of the specification and after    *)
(* the contract of cache.ResourceEventHandlerFuncs that main.go fills in.  *)
(***************************************************************************)
EXTENDS Integers, Sequences, FiniteSets, TLC

(* ------------------------------ bounds -------------------------------- *)

\* Number of mutations the cluster commits (the last resource version).
MaxRV == 3

\* Number of times the watch stream breaks.
MaxErrs == 1

\* Number of controller processes started one after the other.
MaxRuns == 2

(* ------------------------- values of the program ---------------------- *)

\* v1.SchemeGroupVersion.Group (ingressgroup.GroupName), an opaque string.
Group == "ingressgroup.GroupName"

\* metav1.ObjectMeta.Name of the CRD: "ingressgroups." + Group.
CRDName == <<"ingressgroups", Group>>

\* The identities (name; the namespace is Namespace(id)) of the instances.
Ids == {"g1", "g2"}

\* The order in which a list answer enumerates the identities.
IdSeq == <<"g1", "g2">>

Namespace(id) == "default"

\* The numbers of ServiceItems of the well-formed payloads.
SvcCounts == {1, 2}

\* A ServiceItem {name, namespace}; a payload item is a record of the fields
\* it carries.
Svc(i) == [name |-> IF i = 1 THEN "svc1" ELSE "svc2", namespace |-> "default"]

\* spec.services with n well-formed items.
Services(n) == [i \in 1..n |-> Svc(i)]

\* The spec.services payloads clients submit: well-formed ones, one whose
\* second item lacks namespace, one whose item lacks name, and one whose
\* item has an empty namespace.
Candidates ==
    {Services(1), Services(2),
     <<Svc(1), [name |-> "svc2"]>>,
     <<[namespace |-> "default"]>>,
     <<[name |-> "svc1", namespace |-> ""]>>}

\* No object: an absent cluster instance, an empty cache slot, no snapshot.
None == [kind |-> "none"]

\* A *v1.IngressGroup: identity, resource version and spec.services.
IngressGroup(id, ver, svcs) ==
    [kind |-> "IngressGroup", ns |-> Namespace(id), name |-> id,
     ver |-> ver, svcs |-> svcs]

\* cache.DeletedFinalStateUnknown: what OnDelete receives when the deletion
\* was not observed on the watch but noticed by a later re-list.
Tombstone(o) ==
    [kind |-> "DeletedFinalStateUnknown", ns |-> o.ns, name |-> o.name,
     obj |-> o]

\* The outcome of a handler call that panics.
Panic == <<"panic">>

(* ------------------------------- state -------------------------------- *)

VARIABLES
    \* the cluster API
    crds,        \* the stored CustomResourceDefinitions, by name
    createCalls, \* every CRD Create call: [run, present, result]
    objs,        \* the IngressGroup instances of the cluster
    rv,          \* the cluster's last resource version
    rejected,    \* the last submission the cluster refused, with its errors
    hist,        \* hist[v]: the watch event committed at version v
    \* the controller process (main.go)
    run,         \* which process this is
    pc,          \* where Run is
    err,         \* Run's err
    exitCode,    \* -1 while the process runs
    informer,    \* the shared informer: [created, resync, handlers, started]
    stopCh,      \* the channel Run waits on
    \* the informer (list-watch client, cache store, dispatcher)
    wstate,      \* idle | listing | watching | broken | dead
    hasSynced,   \* the initial list has populated the cache
    store,       \* the local cache store
    lastRV,      \* the checkpoint of the list-watch client
    wnext,       \* the version of the next event the watch stream delivers
    errs,        \* the number of stream errors so far
    applied,     \* the events applied to the store, in order
    calls        \* the handler invocations, in order

clusterVars == <<crds, createCalls, objs, rv, hist, rejected>>
procVars == <<run, pc, err, exitCode, informer, stopCh>>
infVars == <<wstate, hasSynced, store, lastRV, wnext, errs, applied, calls>>
vars == <<crds, createCalls, objs, rv, hist, rejected, run, pc, err, exitCode,
          informer, stopCh, wstate, hasSynced, store, lastRV, wnext, errs,
          applied, calls>>

NoInformer == [created |-> FALSE, resync |-> 0, handlers |-> 0,
               started |-> FALSE]

EmptyStore == [id \in Ids |-> None]

Init ==
    /\ crds = <<>>
    /\ createCalls = <<>>
    /\ objs = [id \in Ids |-> None]
    /\ rv = 0
    /\ hist = <<>>
    /\ rejected = None
    /\ run = 1
    /\ pc = "createClients"
    /\ err = "nil"
    /\ exitCode = -1
    /\ informer = NoInformer
    /\ stopCh = "unset"
    /\ wstate = "idle"
    /\ hasSynced = FALSE
    /\ store = EmptyStore
    /\ lastRV = 0
    /\ wnext = 1
    /\ errs = 0
    /\ applied = <<>>
    /\ calls = <<>>

(* ---------------------------- the cluster API ------------------------- *)

\* How many stored schema definitions carry this name.
CountCRD(stored, name) ==
    Cardinality({i \in 1..Len(stored) : stored[i] = name})

\* CreateSchema(definition) -> success | AlreadyExists: the answer of the
\* cluster and the CRD store after it.
ClusterCreateCRD(stored, name) ==
    IF CountCRD(stored, name) > 0
    THEN [result |-> "AlreadyExists", crds |-> stored]
    ELSE [result |-> "nil", crds |-> Append(stored, name)]

\* Instances exist only of a registered resource type.
Served == CountCRD(crds, CRDName) > 0

\* A schema that requires only the name of an item.
ItemRequired_NameOnly == <<"name">>

\* The validation schema CreateIngressGroupCRD publishes for an item of
\* spec.services: the required fields ...
ItemRequired == <<"name", "namespace">>

\* ... and the properties, each of type string and nothing more.
ItemProperties == [name |-> [type |-> "string"],
                   namespace |-> [type |-> "string"]]

\* Whether a value satisfies a property of the schema: a string does, the
\* empty string included (the schema sets no minimum length).
Satisfies(prop, value) == prop.type = "string"

\* Structural validation of spec.services against the published schema:
\* the errors, each the path of the field at fault (items from 0).
Validate(svcs) ==
    LET missing == {x \in (1..Len(svcs)) \X {ItemRequired[k] :
                                               k \in 1..Len(ItemRequired)} :
                        x[2] \notin DOMAIN svcs[x[1]]}
        malformed == {x \in (1..Len(svcs)) \X DOMAIN ItemProperties :
                        /\ x[2] \in DOMAIN svcs[x[1]]
                        /\ ~Satisfies(ItemProperties[x[2]],
                                      svcs[x[1]][x[2]])}
    IN  {<<"services", x[1] - 1, x[2]>> : x \in missing \cup malformed}

\* A client creates an instance: the cluster commits it at a new version.
ClusterCreate(id) ==
    /\ Served
    /\ rv < MaxRV
    /\ objs[id] = None
    /\ Validate(Services(1)) = {}
    /\ rv' = rv + 1
    /\ objs' = [objs EXCEPT ![id] = IngressGroup(id, rv + 1, Services(1))]
    /\ hist' = Append(hist, [type |-> "ADDED",
                             obj |-> IngressGroup(id, rv + 1, Services(1))])
    /\ UNCHANGED <<crds, createCalls, rejected>>
    /\ UNCHANGED procVars
    /\ UNCHANGED infVars

\* A client changes spec.services of an instance.
ClusterUpdate(id) ==
    /\ Served
    /\ rv < MaxRV
    /\ objs[id] # None
    /\ \E s \in SvcCounts \ {Len(objs[id].svcs)} :
        /\ Validate(Services(s)) = {}
        /\ objs' = [objs EXCEPT ![id] = IngressGroup(id, rv + 1, Services(s))]
        /\ hist' = Append(hist, [type |-> "MODIFIED",
                                 obj |-> IngressGroup(id, rv + 1,
                                                      Services(s))])
    /\ rv' = rv + 1
    /\ UNCHANGED <<crds, createCalls, rejected>>
    /\ UNCHANGED procVars
    /\ UNCHANGED infVars

\* A client deletes an instance; the event carries its final state.
ClusterDelete(id) ==
    /\ Served
    /\ rv < MaxRV
    /\ objs[id] # None
    /\ rv' = rv + 1
    /\ objs' = [objs EXCEPT ![id] = None]
    /\ hist' = Append(hist, [type |-> "DELETED", obj |-> objs[id]])
    /\ UNCHANGED <<crds, createCalls, rejected>>
    /\ UNCHANGED procVars
    /\ UNCHANGED infVars

\* A client submits spec.services for an instance (a create, or an update
\* that changes it): the cluster validates the payload against the schema,
\* commits it at a new version or refuses it with the validation errors.
Submit(id, p) ==
    /\ Served
    /\ rv < MaxRV
    /\ IF objs[id] = None THEN TRUE ELSE objs[id].svcs # p
    /\ IF Validate(p) = {}
       THEN /\ rv' = rv + 1
            /\ objs' = [objs EXCEPT ![id] = IngressGroup(id, rv + 1, p)]
            /\ hist' = Append(hist,
                              [type |-> IF objs[id] = None
                                        THEN "ADDED" ELSE "MODIFIED",
                               obj |-> IngressGroup(id, rv + 1, p)])
            /\ rejected' = rejected
       ELSE /\ rejected' = [kind |-> "rejected", services |-> p,
                            errors |-> Validate(p)]
            /\ UNCHANGED <<objs, rv, hist>>
    /\ UNCHANGED <<crds, createCalls>>
    /\ UNCHANGED procVars
    /\ UNCHANGED infVars

(* ------------------------- main.go: the handler ----------------------- *)

IsIngressGroup(obj) == obj.kind = "IngressGroup"

\* AddFunc: obj.(*v1.IngressGroup) panics on any other dynamic type.
AddFunc(obj) ==
    IF IsIngressGroup(obj)
    THEN <<"addIngGroup", obj.ns, obj.name>>
    ELSE Panic

\* DeleteFunc: delIngGroup, _ := obj.(*v1.IngressGroup) leaves delIngGroup
\* nil on any other dynamic type, and delIngGroup.Namespace then panics.
DeleteFunc(obj) ==
    IF IsIngressGroup(obj)
    THEN <<"delIngGroup", obj.ns, obj.name>>
    ELSE Panic

\* UpdateFunc: both assertions panic on any other dynamic type.
UpdateFunc(old, cur) ==
    IF IsIngressGroup(old) /\ IsIngressGroup(cur)
    THEN <<"oldIngGroup", old.ns, old.name, "curIngGroup", cur.ns, cur.name>>
    ELSE Panic

\* A handler that empties the service list of the object it is given.
HandlerLeaves_ClearsServices(note) == [note.obj EXCEPT !.svcs = <<>>]

\* ingGroupEventHandler: the object of a notification as the callback leaves
\* it.  The three callbacks read Namespace and Name and write nothing.
HandlerLeaves(note) == note.obj

\* ingGroupEventHandler: the callback of a notification and what it logs.
Invoke(note) ==
    [fn |-> note.fn, old |-> note.old, obj |-> note.obj,
     line |-> CASE note.fn = "AddFunc" -> AddFunc(note.obj)
                [] note.fn = "DeleteFunc" -> DeleteFunc(note.obj)
                [] note.fn = "UpdateFunc" -> UpdateFunc(note.old, note.obj)]

(* ------------------- the cache store and the dispatcher --------------- *)

\* List(): the snapshot of the entries of a store.
List(s) == {s[id] : id \in Ids} \ {None}

\* Classification by the type of the event, whatever the cache holds.
Classify_ByEventType(prior, ev) ==
    CASE ev.type = "DELETED" -> IF prior = None THEN "Noop" ELSE "Delete"
      [] ev.type = "ADDED" -> "Add"
      [] OTHER -> IF prior = None THEN "Add" ELSE "Update"

\* How Apply classifies an event against the prior value of its identity.
Classify(prior, ev) ==
    IF ev.type = "DELETED"
    THEN IF prior = None THEN "Noop" ELSE "Delete"
    ELSE IF prior = None THEN "Add" ELSE "Update"

\* A store that keeps the entry of a deleted instance.
ApplyStore_KeepDeleted(s, ev, op) ==
    CASE op \in {"Add", "Update"} -> [s EXCEPT ![ev.id] = ev.obj]
      [] OTHER -> s

\* Apply(event): the store after the event.
ApplyStore(s, ev, op) ==
    CASE op \in {"Add", "Update"} -> [s EXCEPT ![ev.id] = ev.obj]
      [] op = "Delete" -> [s EXCEPT ![ev.id] = None]
      [] OTHER -> s

\* The callback chosen by the type of the event, not by its classification.
Notification_ByEventType(prior, ev, op) ==
    CASE ev.type = "ADDED" ->
            [fn |-> "AddFunc", old |-> None, obj |-> ev.obj]
      [] ev.type = "DELETED" ->
            [fn |-> "DeleteFunc", old |-> None, obj |-> ev.obj]
      [] OTHER -> [fn |-> "UpdateFunc", old |-> prior, obj |-> ev.obj]

\* The notification of a classified event: OnUpdate gets the prior and the
\* current snapshot, OnAdd the new one, OnDelete the final state or, for a
\* deletion found by a re-list, the tombstone.
Notification(prior, ev, op) ==
    CASE op = "Add" -> [fn |-> "AddFunc", old |-> None, obj |-> ev.obj]
      [] op = "Update" -> [fn |-> "UpdateFunc", old |-> prior, obj |-> ev.obj]
      [] OTHER -> [fn |-> "DeleteFunc", old |-> None, obj |-> ev.obj]

\* The notification delivered to each of the n registered handlers in turn.
RECURSIVE Deliver(_, _, _)
Deliver(log, note, n) ==
    IF n = 0
    THEN log
    ELSE Deliver(Append(log, Invoke(note)), note, n - 1)

\* The store after the handlers ran: when the dispatcher hands them the
\* entry itself (shared) and not a copy, the entry is what they left of it.
Handled(s, ev, op, note, n, shared) ==
    IF shared /\ n > 0 /\ op \in {"Add", "Update"}
    THEN [s EXCEPT ![ev.id] = HandlerLeaves(note)]
    ELSE s

\* One event through the store and, synchronously, the handlers.  A panic
\* of a handler is recovered by nothing in main.go.
ProcessEvent(st, ev) ==
    LET prior == st.store[ev.id]
        op == Classify(prior, ev)
        note == Notification(prior, ev, op)
        n == IF op = "Noop" THEN 0 ELSE informer.handlers
    IN  [store |-> Handled(ApplyStore(st.store, ev, op), ev, op, note, n,
                           st.shared),
         shared |-> st.shared,
         applied |-> Append(st.applied,
                            [src |-> ev.src, type |-> ev.type, id |-> ev.id,
                             obj |-> ev.obj, prior |-> prior, op |-> op]),
         calls |-> Deliver(st.calls, note, n),
         crashed |-> n > 0 /\ Invoke(note).line = Panic]

\* The events of a sequence, each through ProcessEvent, up to a panic.
RECURSIVE ProcessAll(_, _)
ProcessAll(st, evs) ==
    IF evs = <<>> \/ st.crashed
    THEN st
    ELSE ProcessAll(ProcessEvent(st, Head(evs)), Tail(evs))

\* An event of the watch stream, as the list-watch client hands it on.
WatchEv(e) ==
    [src |-> "watch", type |-> e.type, id |-> e.obj.name, obj |-> e.obj]

\* Reconciliation of a fresh list against the cache: new entries are
\* synthetic Adds, entries at another version synthetic Updates ...
RECURSIVE ListedEvents(_, _, _)
ListedEvents(s, items, ids) ==
    IF ids = <<>>
    THEN <<>>
    ELSE LET id == Head(ids)
             rest == ListedEvents(s, items, Tail(ids))
         IN  IF items[id] # None
                /\ (s[id] = None \/ s[id].ver # items[id].ver)
             THEN <<[src |-> "list", type |-> "SYNC", id |-> id,
                     obj |-> items[id]]>> \o rest
             ELSE rest

\* ... and cached entries the list omits are synthetic Deletes.
RECURSIVE OmittedEvents(_, _, _)
OmittedEvents(s, items, ids) ==
    IF ids = <<>>
    THEN <<>>
    ELSE LET id == Head(ids)
             rest == OmittedEvents(s, items, Tail(ids))
         IN  IF items[id] = None /\ s[id] # None
             THEN <<[src |-> "list", type |-> "DELETED", id |-> id,
                     obj |-> Tombstone(s[id])]>> \o rest
             ELSE rest

ReconcileEvents(s, items) ==
    ListedEvents(s, items, IdSeq) \o OmittedEvents(s, items, IdSeq)

\* The state the informer goroutine works on.
InformerState(shared) ==
    [store |-> store, applied |-> applied, calls |-> calls,
     shared |-> shared, crashed |-> FALSE]

\* What a processing step leaves behind: the store and the logs; a handler
\* panic ends the process with exit status 2.
Processed(st) ==
    /\ store' = st.store
    /\ applied' = st.applied
    /\ calls' = st.calls
    /\ pc' = IF st.crashed THEN "exited" ELSE pc
    /\ exitCode' = IF st.crashed THEN 2 ELSE exitCode

Alive == pc # "exited"

\* Initial List and Resync: list, reconcile, then watch from the list's
\* resource version.
ListAndReconcile ==
    /\ Alive
    /\ wstate = "listing"
    /\ \E shared \in BOOLEAN :
         LET st == ProcessAll(InformerState(shared),
                              ReconcileEvents(store, objs))
         IN  /\ Processed(st)
             /\ wstate' = IF st.crashed THEN "dead" ELSE "watching"
             /\ hasSynced' = (hasSynced \/ ~st.crashed)
    /\ lastRV' = rv
    /\ wnext' = rv + 1
    /\ UNCHANGED <<run, err, informer, stopCh, errs>>
    /\ UNCHANGED clusterVars

\* Watch: the next event of the stream, applied and dispatched.
WatchEvent ==
    /\ Alive
    /\ wstate = "watching"
    /\ wnext <= Len(hist)
    /\ \E shared \in BOOLEAN :
         LET st == ProcessEvent(InformerState(shared), WatchEv(hist[wnext]))
         IN  /\ Processed(st)
             /\ wstate' = IF st.crashed THEN "dead" ELSE wstate
    /\ lastRV' = IF wnext > lastRV THEN wnext ELSE lastRV
    /\ wnext' = wnext + 1
    /\ UNCHANGED <<run, err, informer, stopCh, errs, hasSynced>>
    /\ UNCHANGED clusterVars

\* The watch stream breaks (network failure, timeout).
StreamError ==
    /\ Alive
    /\ wstate = "watching"
    /\ errs < MaxErrs
    /\ errs' = errs + 1
    /\ wstate' = "broken"
    /\ UNCHANGED <<hasSynced, store, lastRV, wnext, applied, calls>>
    /\ UNCHANGED procVars
    /\ UNCHANGED clusterVars

\* A reconnect that resumes the watch at the start of the history.
Rewatch_FromStart ==
    /\ Alive
    /\ wstate = "broken"
    /\ wnext' = 1
    /\ wstate' = "watching"
    /\ UNCHANGED <<hasSynced, store, lastRV, errs, applied, calls>>
    /\ UNCHANGED procVars
    /\ UNCHANGED clusterVars

\* Reconnect: the watch resumes at the checkpoint (delivery is at least
\* once: the event of the checkpoint itself may come again) ...
Rewatch ==
    /\ Alive
    /\ wstate = "broken"
    /\ \E from \in {lastRV, lastRV + 1} :
        /\ from >= 1
        /\ wnext' = from
    /\ wstate' = "watching"
    /\ UNCHANGED <<hasSynced, store, lastRV, errs, applied, calls>>
    /\ UNCHANGED procVars
    /\ UNCHANGED clusterVars

\* ... or, the checkpoint having expired, falls back to a full list.  With
\* a resync period above zero the timer also starts one on a healthy stream.
Relist ==
    /\ Alive
    /\ wstate \in (IF informer.resync > 0
                   THEN {"broken", "watching"}
                   ELSE {"broken"})
    /\ wstate' = "listing"
    /\ UNCHANGED <<hasSynced, store, lastRV, wnext, errs, applied, calls>>
    /\ UNCHANGED procVars
    /\ UNCHANGED clusterVars

(* ------------------------------ main.go: Run -------------------------- *)

\* The process ends: Run returned an error (main: os.Exit(1)), klog.Fatal
\* (255), or the process was killed.
Exit(code) ==
    /\ pc' = "exited"
    /\ exitCode' = code
    /\ wstate' = IF wstate = "idle" THEN "idle" ELSE "dead"

\* A start-up that goes from the clients straight to the informer.
CreateClients_SkipsRegistration ==
    /\ pc = "createClients"
    /\ \E outcome \in {"ok", "configError", "fatal"} :
        CASE outcome = "ok" ->
                /\ pc' = "newClient"
                /\ err' = "nil"
                /\ UNCHANGED <<exitCode, wstate>>
          [] outcome = "configError" ->
                /\ err' = "ConfigError"
                /\ Exit(1)
          [] OTHER ->
                /\ err' = err
                /\ Exit(255)
    /\ UNCHANGED <<run, informer, stopCh>>
    /\ UNCHANGED <<hasSynced, store, lastRV, wnext, errs, applied, calls>>
    /\ UNCHANGED clusterVars

\* createClients: BuildConfigFromFlags fails (Run returns the error), a
\* clientset cannot be built (klog.Fatalf), or the clients are returned.
CreateClients ==
    /\ pc = "createClients"
    /\ \E outcome \in {"ok", "configError", "fatal"} :
        CASE outcome = "ok" ->
                /\ pc' = "register"
                /\ err' = "nil"
                /\ UNCHANGED <<exitCode, wstate>>
          [] outcome = "configError" ->
                /\ err' = "ConfigError"
                /\ Exit(1)
          [] OTHER ->
                /\ err' = err
                /\ Exit(255)
    /\ UNCHANGED <<run, informer, stopCh>>
    /\ UNCHANGED <<hasSynced, store, lastRV, wnext, errs, applied, calls>>
    /\ UNCHANGED clusterVars

\* A definition named anew by every process (a generated name).
CrdObject_PerRun(r) == <<"ingressgroups", Group, r>>

\* The definition CreateIngressGroupCRD builds: always the same name.
CrdObject(r) == CRDName

\* CreateIngressGroupCRD: one Create call, whose error is returned.  The
\* call fails for another reason (fault) or is answered by the cluster.
CreateIngressGroupCRD ==
    /\ pc = "register"
    /\ \E fault \in BOOLEAN :
        LET present == CountCRD(crds, CrdObject(run)) > 0
            ans == IF fault
                   THEN [result |-> "Error", crds |-> crds]
                   ELSE ClusterCreateCRD(crds, CrdObject(run))
        IN  /\ crds' = ans.crds
            /\ err' = ans.result
            /\ createCalls' = Append(createCalls,
                                     [run |-> run, present |-> present,
                                      result |-> ans.result])
    /\ pc' = "checkErr"
    /\ UNCHANGED <<run, exitCode, informer, stopCh>>
    /\ UNCHANGED <<objs, rv, hist, rejected>>
    /\ UNCHANGED infVars

\* Run returning every error of the registration, AlreadyExists too.
Tolerated_OnlyNil(e) == e = "nil"

\* Run going on after any error of the registration.
Tolerated_AnyError(e) == TRUE

\* Run, lines 67-74: which errors of the registration Run goes on after.
Tolerated(e) == e \in {"nil", "AlreadyExists"}

\* An error check that calls the registration again on AlreadyExists.
CheckErr_Retry ==
    /\ pc = "checkErr"
    /\ IF err = "nil"
       THEN /\ pc' = "newClient"
            /\ UNCHANGED <<exitCode, wstate>>
       ELSE IF err = "AlreadyExists"
            THEN /\ pc' = "register"
                 /\ UNCHANGED <<exitCode, wstate>>
            ELSE Exit(1)
    /\ UNCHANGED <<run, err, informer, stopCh>>
    /\ UNCHANGED <<hasSynced, store, lastRV, wnext, errs, applied, calls>>
    /\ UNCHANGED clusterVars

\* Run, lines 67-74: AlreadyExists is logged, any other error returned.
CheckErr ==
    /\ pc = "checkErr"
    /\ IF Tolerated(err)
       THEN /\ pc' = "newClient"
            /\ UNCHANGED <<exitCode, wstate>>
       ELSE Exit(1)
    /\ UNCHANGED <<run, err, informer, stopCh>>
    /\ UNCHANGED <<hasSynced, store, lastRV, wnext, errs, applied, calls>>
    /\ UNCHANGED clusterVars

\* igclient.NewForConfig: klog.Fatal on an error.
NewClient ==
    /\ pc = "newClient"
    /\ \E ok \in BOOLEAN :
        IF ok
        THEN /\ pc' = "newInformer"
             /\ err' = "nil"
             /\ UNCHANGED <<exitCode, wstate>>
        ELSE /\ err' = "Error"
             /\ Exit(255)
    /\ UNCHANGED <<run, informer, stopCh>>
    /\ UNCHANGED <<hasSynced, store, lastRV, wnext, errs, applied, calls>>
    /\ UNCHANGED clusterVars

\* context.TODO().Done(): the empty context is never cancelled and its Done
\* channel is nil.
TodoDone == "nil"

\* An informer factory built with a resync period of one time unit.
NewInformer_WithResync ==
    /\ pc = "newInformer"
    /\ informer' = [informer EXCEPT !.created = TRUE, !.resync = 1]
    /\ stopCh' = TodoDone
    /\ pc' = "addHandler"
    /\ UNCHANGED <<run, err, exitCode>>
    /\ UNCHANGED infVars
    /\ UNCHANGED clusterVars

\* NewSharedInformerFactory(versionedClient, 0), ctx and stopCh.
NewInformer ==
    /\ pc = "newInformer"
    /\ informer' = [informer EXCEPT !.created = TRUE, !.resync = 0]
    /\ stopCh' = TodoDone
    /\ pc' = "addHandler"
    /\ UNCHANGED <<run, err, exitCode>>
    /\ UNCHANGED infVars
    /\ UNCHANGED clusterVars

\* The informer left without the handler.
RegisterHandler_None(inf) == inf

\* The handler registered twice.
RegisterHandler_Twice(inf) == [inf EXCEPT !.handlers = inf.handlers + 2]

\* AddEventHandler: one more handler on the informer.
RegisterHandler(inf) == [inf EXCEPT !.handlers = inf.handlers + 1]

\* Informer().AddEventHandler(ingGroupEventHandler), once.
AddEventHandler ==
    /\ pc = "addHandler"
    /\ informer' = RegisterHandler(informer)
    /\ pc' = "start"
    /\ UNCHANGED <<run, err, exitCode, stopCh>>
    /\ UNCHANGED infVars
    /\ UNCHANGED clusterVars

\* sharedInformers.Start(stopCh): the list-watch task starts; Run goes on
\* to <-stopCh.
Start ==
    /\ pc = "start"
    /\ informer' = [informer EXCEPT !.started = TRUE]
    /\ wstate' = "listing"
    /\ pc' = "wait"
    /\ UNCHANGED <<run, err, exitCode, stopCh>>
    /\ UNCHANGED <<hasSynced, store, lastRV, wnext, errs, applied, calls>>
    /\ UNCHANGED clusterVars

\* The cancellation signal fires: the channel Run waits on is closed.  A
\* nil channel is never closed.
CancelFires ==
    /\ pc = "wait"
    /\ stopCh = "open"
    /\ stopCh' = "closed"
    /\ UNCHANGED <<run, pc, err, exitCode, informer>>
    /\ UNCHANGED infVars
    /\ UNCHANGED clusterVars

\* main installs no signal handler: a signal ends the process at once.
Kill ==
    /\ Alive
    /\ Exit(137)
    /\ UNCHANGED <<run, err, informer, stopCh>>
    /\ UNCHANGED <<hasSynced, store, lastRV, wnext, errs, applied, calls>>
    /\ UNCHANGED clusterVars

\* The controller is started again against the same cluster.
Restart ==
    /\ pc = "exited"
    /\ run < MaxRuns
    /\ run' = run + 1
    /\ pc' = "createClients"
    /\ err' = "nil"
    /\ exitCode' = -1
    /\ informer' = NoInformer
    /\ stopCh' = "unset"
    /\ wstate' = "idle"
    /\ hasSynced' = FALSE
    /\ store' = EmptyStore
    /\ lastRV' = 0
    /\ wnext' = 1
    /\ errs' = 0
    /\ applied' = <<>>
    /\ calls' = <<>>
    /\ UNCHANGED clusterVars

\* The lifecycle of section 4.6, read off the process.
Phase ==
    CASE pc = "exited" -> "Failed"
      [] pc = "createClients" -> "Created"
      [] pc \in {"register", "checkErr"} -> "Registering"
      [] pc = "wait" /\ hasSynced /\ stopCh = "closed" -> "Stopping"
      [] pc = "wait" /\ hasSynced -> "Running"
      [] OTHER -> "Syncing"

Next ==
    \/ \E id \in Ids : ClusterCreate(id)
    \/ \E id \in Ids : ClusterUpdate(id)
    \/ \E id \in Ids : ClusterDelete(id)
    \/ CreateClients
    \/ CreateIngressGroupCRD
    \/ CheckErr
    \/ NewClient
    \/ NewInformer
    \/ AddEventHandler
    \/ Start
    \/ ListAndReconcile
    \/ WatchEvent
    \/ StreamError
    \/ Rewatch
    \/ Relist
    \/ Kill
    \/ Restart

Spec == Init /\ [][Next]_vars

\* One controller run, its watch stream healthy, against a cluster whose
\* clients submit any of the candidate payloads, malformed ones included.
NextV ==
    \/ \E id \in Ids : \E p \in Candidates : Submit(id, p)
    \/ \E id \in Ids : ClusterDelete(id)
    \/ CreateClients
    \/ CreateIngressGroupCRD
    \/ CheckErr
    \/ NewClient
    \/ NewInformer
    \/ AddEventHandler
    \/ Start
    \/ ListAndReconcile
    \/ WatchEvent

SpecV == Init /\ [][NextV]_vars

(* ------------------------------ the claims ---------------------------- *)

\* What this process's CreateIngressGroupCRD returned ("none": not called).
CrdErr ==
    IF createCalls # <<>> /\ createCalls[Len(createCalls)].run = run
    THEN createCalls[Len(createCalls)].result
    ELSE "none"

\* C1: after a registration error other than AlreadyExists, Run only
\* returns that error: no informer is constructed, no handler registered,
\* no list or watch is ever in progress, and the process ends with a
\* non-zero exit status.
C1_RegistrationFailureIsFatal ==
    CrdErr = "Error" =>
        /\ pc \in {"checkErr", "exited"}
        /\ err = "Error"
        /\ informer = NoInformer
        /\ stopCh = "unset"
        /\ wstate = "idle"
        /\ ~hasSynced
        /\ store = EmptyStore
        /\ applied = <<>>
        /\ calls = <<>>
        /\ (pc = "exited" => exitCode \notin {-1, 0})

C1_Witness ==
    /\ CrdErr = "Error"
    /\ pc = "exited"
    /\ exitCode = 1

\* C2: on AlreadyExists the error check of Run does not fail: Run goes on
\* to build the client and the informer, with nothing else changed, exactly
\* as it does after a successful registration.
C2_AlreadyExistsProceeds ==
    [][(CheckErr /\ err \in {"nil", "AlreadyExists"}) =>
            /\ pc' = "newClient"
            /\ exitCode' = -1
            /\ UNCHANGED <<run, err, informer, stopCh>>
            /\ UNCHANGED infVars
            /\ UNCHANGED clusterVars]_vars

C2_Witness ==
    /\ CrdErr = "AlreadyExists"
    /\ informer = [created |-> TRUE, resync |-> 0, handlers |-> 1,
                   started |-> TRUE]
    /\ wstate = "watching"

\* C3: of two registrations the cluster has answered, the second is answered
\* AlreadyExists, and after any number of registrations the cluster holds
\* exactly one schema definition, named ingressgroups.<group>.
C3_RegistrationIdempotent ==
    /\ \A i, j \in 1..Len(createCalls) :
        (i < j /\ createCalls[i].result # "Error"
               /\ createCalls[j].result # "Error")
            => createCalls[j].result = "AlreadyExists"
    /\ CountCRD(crds, CRDName) <= 1
    /\ (\E i \in 1..Len(createCalls) : createCalls[i].result # "Error")
            => crds = <<CRDName>>

C3_Witness ==
    /\ Len(createCalls) = 2
    /\ createCalls[1].result = "nil"
    /\ createCalls[2].result = "AlreadyExists"
    /\ createCalls[2].run = 2

\* The set of instances a sequence of events implies, replayed from empty.
RECURSIVE Replay(_)
Replay(evs) ==
    IF evs = <<>>
    THEN {}
    ELSE LET e == evs[Len(evs)]
             before == Replay(SubSeq(evs, 1, Len(evs) - 1))
             others == {o \in before : o.name # e.id}
         IN  IF e.type = "DELETED" THEN others ELSE others \cup {e.obj}

\* C4: List() of the cache store equals the set of instances obtained by
\* replaying, from an empty store, the events applied so far.
C4_ListEqualsReplay == List(store) = Replay(applied)

C4_Witness ==
    /\ Len(applied) >= 3
    /\ \E i, j, k \in 1..Len(applied) :
        /\ applied[i].op = "Add"
        /\ applied[j].op = "Update"
        /\ applied[k].op = "Delete"
    /\ List(store) # {}

IsTransition(e) == e.op # "Noop"

\* The state transitions applied to the cache, in order.
Transitions == SelectSeq(applied, IsTransition)

FnOf(op) ==
    CASE op = "Add" -> "AddFunc"
      [] op = "Update" -> "UpdateFunc"
      [] OTHER -> "DeleteFunc"

\* C5: the handler is invoked exactly once per state transition applied to
\* the cache, in the order of the transitions; an Update carries the prior
\* and the current snapshot, and the cache holds what the last transition
\* put there.
C5_OneNotificationPerTransition ==
    /\ Len(calls) = Len(Transitions)
    /\ \A i \in 1..Len(Transitions) :
        i <= Len(calls) =>
            /\ calls[i].fn = FnOf(Transitions[i].op)
            /\ calls[i].obj = Transitions[i].obj
            /\ calls[i].old = IF Transitions[i].op = "Update"
                              THEN Transitions[i].prior
                              ELSE None
    /\ Transitions # <<>> =>
        LET e == Transitions[Len(Transitions)]
        IN  store[e.id] = IF e.op = "Delete" THEN None ELSE e.obj

\* The scenario of C5: g1 listed, then updated on the watch with a second
\* service: one OnAdd, one OnUpdate(prior, current), the cache at the new
\* version.
C5_Witness ==
    /\ Len(applied) = 2
    /\ Len(calls) = 2
    /\ applied[1].src = "list"
    /\ applied[2].src = "watch"
    /\ calls[1].fn = "AddFunc"
    /\ calls[1].obj = IngressGroup("g1", 1, Services(1))
    /\ calls[2].fn = "UpdateFunc"
    /\ calls[2].old = IngressGroup("g1", 1, Services(1))
    /\ calls[2].obj = IngressGroup("g1", 2, Services(2))
    /\ store["g1"] = IngressGroup("g1", 2, Services(2))

\* C6: a watch event for an identity the cache does not hold is dispatched
\* as Add, one for an identity it holds as Update, and an identity the cache
\* holds that a resync list omits is dispatched as Delete.
C6_Classification ==
    \A i \in 1..Len(Transitions) :
        LET e == Transitions[i]
        IN  i <= Len(calls) =>
            /\ (e.src = "watch" /\ e.type # "DELETED" /\ e.prior = None)
                    => (e.op = "Add" /\ calls[i].fn = "AddFunc")
            /\ (e.src = "watch" /\ e.type # "DELETED" /\ e.prior # None)
                    => (e.op = "Update" /\ calls[i].fn = "UpdateFunc")
            /\ (e.src = "list" /\ e.type = "DELETED" /\ e.prior # None)
                    => (e.op = "Delete" /\ calls[i].fn = "DeleteFunc")

C6_Witness ==
    \E i, j, k \in 1..Len(calls) :
        /\ Transitions[i].src = "watch" /\ calls[i].fn = "AddFunc"
        /\ Transitions[j].src = "watch" /\ calls[j].fn = "UpdateFunc"
        /\ Transitions[k].src = "list" /\ calls[k].fn = "DeleteFunc"

\* C7: when a re-list after a stream error omits a cached instance, exactly
\* one OnDelete for it is delivered, the handler completes for it, and the
\* cache no longer contains it.
C7_ResyncDeleteCompletes ==
    \A i \in 1..Len(Transitions) :
        LET e == Transitions[i]
        IN  (e.src = "list" /\ e.type = "DELETED") =>
                /\ i <= Len(calls)
                /\ calls[i].fn = "DeleteFunc"
                /\ calls[i].line = <<"delIngGroup", e.prior.ns, e.prior.name>>
                /\ exitCode # 2
                /\ (i = Len(Transitions) => store[e.id] = None)

\* The step that delivers again an event already applied: same identity,
\* same resource version as the cache entry.
DuplicateStep ==
    /\ Len(applied') = Len(applied) + 1
    /\ LET e == applied'[Len(applied')]
       IN  /\ e.src = "watch"
           /\ e.type \in {"ADDED", "MODIFIED"}
           /\ e.prior # None
           /\ e.prior.ver = e.obj.ver

\* C8: delivering again an Update already applied leaves the cache state
\* unchanged and is never dispatched as an Add.
C8_DuplicateUpdateIdempotent ==
    [][DuplicateStep =>
            /\ store' = store
            /\ applied'[Len(applied')].op = "Update"
            /\ Len(calls') = Len(calls) + 1
            /\ calls'[Len(calls')].fn = "UpdateFunc"]_vars

C8_Witness ==
    /\ applied # <<>>
    /\ LET e == applied[Len(applied)]
       IN  /\ e.src = "watch"
           /\ e.type = "MODIFIED"
           /\ e.prior = e.obj
           /\ store[e.id] = e.obj
    /\ calls[Len(calls)].fn = "UpdateFunc"

\* C9: a panic inside a handler callback does not crash the dispatch loop
\* or the process: the list-watch loop stays alive after it.
C9_HandlerFailureContained ==
    \A i \in 1..Len(calls) :
        calls[i].line = Panic => (Alive /\ wstate # "dead")

\* C10: while the controller is Running the cancellation signal Run waits
\* on can fire (and the run then goes through Stopping to Stopped).
C10_CancellationCanFire ==
    Phase = "Running" => ENABLED CancelFires

\* The instance a handler call is about, and its resource version.
Snapshot(call) ==
    IF IsIngressGroup(call.obj) THEN call.obj ELSE call.obj.obj

\* C11: for any one identity the notifications reach the handler in the
\* order the cluster committed the mutations: none carries an older
\* resource version of that identity than an earlier one did (an equal
\* version is an at-least-once duplicate or the final state of a delete).
C11_PerIdentityOrder ==
    \A i, j \in 1..Len(calls) :
        (i < j /\ Snapshot(calls[i]).name = Snapshot(calls[j]).name)
            => Snapshot(calls[i]).ver <= Snapshot(calls[j]).ver

C11_Witness ==
    \E i, j, k \in 1..Len(calls) :
        /\ i < j /\ j < k
        /\ Snapshot(calls[i]).name = Snapshot(calls[j]).name
        /\ Snapshot(calls[j]).name = Snapshot(calls[k]).name
        /\ Snapshot(calls[i]).ver < Snapshot(calls[j]).ver
        /\ Snapshot(calls[j]).ver = Snapshot(calls[k]).ver
        /\ errs > 0

\* Whether every item of a payload carries both fields.
Complete(svcs) ==
    \A i \in 1..Len(svcs) : {"name", "namespace"} \subseteq DOMAIN svcs[i]

\* The instances the cluster has committed, stores or has put on the watch
\* history, and the cache entries.
Materialized ==
    List(objs) \cup List(store) \cup {hist[v].obj : v \in 1..Len(hist)}

\* C12: a submission with a services item that lacks namespace (or name) is
\* refused with an error at the path services[i].namespace (services[i].name),
\* and no instance with such an item is committed or appears in the cache.
C12_MissingFieldRejected ==
    /\ rejected # None =>
        /\ rejected.errors # {}
        /\ \A i \in 1..Len(rejected.services) :
            \A f \in {"name", "namespace"} :
                f \notin DOMAIN rejected.services[i]
                    => <<"services", i - 1, f>> \in rejected.errors
    /\ \A o \in Materialized : Complete(o.svcs)

C12_Witness ==
    /\ rejected # None
    /\ rejected.services = <<Svc(1), [name |-> "svc2"]>>
    /\ rejected.errors = {<<"services", 1, "namespace">>}
    /\ List(store) # {}

\* C13: the published schema refuses a services item whose name or namespace
\* is the empty string: no committed instance has one.
C13_EmptyStringRejected ==
    \A o \in Materialized :
        \A i \in 1..Len(o.svcs) :
            \A f \in DOMAIN o.svcs[i] : o.svcs[i][f] # ""

\* C14: the controller issues at most one schema Create per run, at startup
\* before any informer exists, and nothing else ever changes the stored
\* schema definitions: one already present is left as it is by every step,
\* the end of the process and a later run included.
C14_SchemaOnlyCreatedOnce ==
    [][/\ crds # <<>> => crds' = crds
       /\ crds' # crds =>
            /\ pc = "register"
            /\ crds' = <<CRDName>>
       /\ createCalls' # createCalls =>
            /\ pc = "register"
            /\ informer = NoInformer
            /\ wstate = "idle"
            /\ Len(createCalls') = Len(createCalls) + 1
       /\ \A i, j \in 1..Len(createCalls') :
            createCalls'[i].run = createCalls'[j].run => i = j]_vars

C14_Witness ==
    /\ run = 2
    /\ pc = "exited"
    /\ Len(createCalls) = 2
    /\ createCalls[1].result = "nil"
    /\ createCalls[2].present
    /\ crds = <<CRDName>>

\* The objects the cluster committed.
Committed ==
    {hist[i].obj : i \in {j \in 1..Len(hist) : hist[j].type # "DELETED"}}

CaughtUp ==
    /\ wstate \notin {"broken", "listing"}
    /\ ~(wstate = "watching" /\ wnext <= Len(hist))

\* C16: after a watch stream error, and unless the process was stopped from
\* outside, the client retries or lists again, so that once it has nothing
\* left to do the cache equals the cluster's set of instances.
C16_ConvergesAfterStreamError ==
    (errs > 0 /\ exitCode # 137 /\ CaughtUp) => store = objs

\* The position of a lifecycle state in the state machine; the end of the
\* process is last, however it came about.
Rank(phase) ==
    CASE phase = "Created" -> 0
      [] phase = "Registering" -> 1
      [] phase = "Syncing" -> 2
      [] phase = "Running" -> 3
      [] phase = "Stopping" -> 4
      [] OTHER -> 5

\* The registration call of this run has returned success or AlreadyExists.
RegistrationDone ==
    \E i \in 1..Len(createCalls) :
        /\ createCalls[i].run = run
        /\ createCalls[i].result \in {"nil", "AlreadyExists"}

\* C17: within a run the lifecycle never moves backwards; a List or Watch
\* call is issued only after the registration call of the run returned
\* success or AlreadyExists; and the step into Running is the one that
\* completes the initial list, leaving the cache equal to the listed set and
\* the watch stream established.
C17_LifecycleForward ==
    [][/\ run' = run => Rank(Phase') >= Rank(Phase)
       /\ wstate' \in {"listing", "watching", "broken"} => RegistrationDone'
       /\ (Phase # "Running" /\ Phase' = "Running") =>
            /\ wstate = "listing"
            /\ wstate' = "watching"
            /\ store' = objs
            /\ applied = <<>>]_vars

C17_Witness ==
    /\ Phase = "Running"
    /\ wstate = "watching"
    /\ store = objs
    /\ store["g1"] # None
    /\ createCalls[Len(createCalls)].result = "AlreadyExists"

\* C18: with the resync period of zero of the informer Run builds, no list
\* is started by a timer: a list starts only when the informer is started or
\* after the watch stream terminated, and while the stream is healthy every
\* notification the handler receives is for an event of the watch stream.
C18_NoPeriodicResync ==
    [][/\ (wstate # "listing" /\ wstate' = "listing") =>
            wstate \in {"idle", "broken"}
       /\ (wstate = "watching" /\ calls' # calls /\ run' = run) =>
            /\ Len(applied') = Len(applied) + 1
            /\ applied'[Len(applied')].src = "watch"]_vars

C18_Witness ==
    /\ wstate = "watching"
    /\ errs = 1
    /\ \E i, j \in 1..Len(applied) :
         /\ i < j
         /\ applied[i].src = "watch"
         /\ applied[j].src = "list"
         /\ applied[j].op = "Update"
    /\ calls[Len(calls)].fn = "UpdateFunc"

\* The calls of AddFunc in a log that carry the object o.
AddsOf(log, o) ==
    {i \in 1..Len(log) : log[i].fn = "AddFunc" /\ log[i].obj = o}

\* C19: the step that completes the initial list calls AddFunc exactly once
\* for every instance the list returned and makes no other call, and no
\* later event of the watch stream adds a second AddFunc call for the same
\* object, wherever the changes of the cluster fall around the list.
C19_InitialListDeliveredOnce ==
    [][/\ (wstate = "listing" /\ ~hasSynced /\ wstate' = "watching") =>
            /\ \A id \in Ids :
                 objs[id] # None => Cardinality(AddsOf(calls', objs[id])) = 1
            /\ Len(calls') = Cardinality(List(objs))
       /\ \A i \in 1..Len(calls') :
            calls'[i].fn = "AddFunc" =>
                Cardinality(AddsOf(calls', calls'[i].obj)) = 1]_vars

C19_Witness ==
    /\ hasSynced
    /\ Len(applied) = 3
    /\ applied[1].src = "list"
    /\ applied[2].src = "list"
    /\ applied[3].src = "watch"
    /\ calls[1].fn = "AddFunc"
    /\ calls[2].fn = "AddFunc"
    /\ calls[1].obj # calls[2].obj
    /\ Len(calls) = 3

====
